---- MODULE Spec2Model ----
(***************************************************************************)
(* Noise-level ("sigma") schedules of modules/sd_schedulers.py: the        *)
(* generator functions, the scheduler list and the schedulers_map          *)
(* registry.                                                               *)
(*                                                                         *)
(* Floating-point values are fixed-point integers counted in thousandths   *)
(* (Unit = 1.0).  The transcendental functions are truncated series in     *)
(* that arithmetic; an undefined float (0/0) is the value NaN.  Positions  *)
(* of torch.linspace / np.linspace are kept as exact fractions j/(n-1).    *)
(***************************************************************************)
EXTENDS Integers, Sequences, FiniteSets, TLC

(***************************************************************************)
(* Bounds of the model.                                                    *)
(***************************************************************************)
\* largest step count n a call is made with (the 32-entry table needs 32)
MaxN == 33
\* largest length of the host model's native sigma table
MaxL == 5
\* longest configured ays_custom_sigmas string, in characters
MaxStrLen == 2
\* longest descriptor list a registry is built from (besides the real one)
MaxDescs == 2
\* largest step count of a call of the custom-list generator
MaxCustomN == 2

(***************************************************************************)
(* Fixed-point arithmetic.                                                 *)
(***************************************************************************)
\* 1.0 as a fixed-point value
Unit == 1000
\* the undefined float (torch 0/0): it propagates through every operation
NaN == -1073741824

Abs(a) == IF a < 0 THEN 0 - a ELSE a
Min2(a, b) == IF a < b THEN a ELSE b
Max2(a, b) == IF a < b THEN b ELSE a

\* a float does not underflow to 0.0 in the ranges used here: a positive
\* quantity below the resolution stays the smallest positive value
Tiny(exact, q) == IF q = 0 /\ exact > 0 THEN 1 ELSE q

\* a * b of two fixed-point values
FMul(a, b) == IF a = NaN \/ b = NaN THEN NaN ELSE Tiny(a * b, (a * b) \div Unit)
\* a / b of two fixed-point values (b > 0)
FDiv(a, b) == IF a = NaN \/ b = NaN THEN NaN ELSE Tiny(a, (a * Unit) \div b)

\* math.log / torch.log / np.log: ln(2^k m) = k ln 2 + ln m, with
\* ln m = 2 atanh((m-1)/(m+1)) for 1 <= m < 2
\* (log(0) is -inf: the most negative value of the range)
FLogNorm(m) ==
    LET z  == ((m - Unit) * Unit) \div (m + Unit)
        z2 == (z * z) \div Unit
        z3 == (z * z2) \div Unit
        z5 == (z3 * z2) \div Unit
    IN  2 * z + (2 * z3) \div 3 + (2 * z5) \div 5

RECURSIVE FLog(_)
FLog(x) ==
    IF x <= 0 THEN 0 - Unit * (2 ^ 17)
    ELSE IF x >= 2 * Unit THEN FLog(x \div 2) + 693
    ELSE IF x < Unit THEN FLog(2 * x) - 693
    ELSE FLogNorm(x)

\* math.exp / torch.exp / np.exp: e^(k ln 2 + r) = 2^k e^r with 0 <= r < ln 2;
\* the result saturates at 2^17 (the range of the fixed-point values)
FExp(y) ==
    LET k  == y \div 693
        r  == y - 693 * k
        r2 == (r * r) \div Unit
        r3 == (r2 * r) \div Unit
        r4 == (r3 * r) \div Unit
        e  == Unit + r + r2 \div 2 + r3 \div 6 + r4 \div 24
    IN  IF k >= 17 THEN Unit * (2 ^ 17)
        ELSE IF k >= 0 THEN e * (2 ^ k)
        ELSE IF k < -30 THEN 1
        ELSE Tiny(e, e \div (2 ^ (0 - k)))

\* x ** p for x >= 0 (Python / torch power with a float exponent)
FPow(x, p) ==
    IF x = NaN \/ p = NaN THEN NaN
    ELSE IF p = 0 THEN Unit
    ELSE IF x = 0 THEN 0
    ELSE FExp((p * FLog(x)) \div Unit)

\* x ** 0.5
RECURSIVE ISqrtFrom(_, _)
ISqrtFrom(v, r) ==
    LET r1 == (r + v \div r) \div 2
    IN  IF r1 >= r THEN r ELSE ISqrtFrom(v, r1)

FSqrt(x) == IF x <= 0 THEN 0 ELSE ISqrtFrom(x * Unit, x * Unit)

\* pi, pi/2 and 2 pi (math.pi, torch.pi, math.tau)
FPi == 3142
FHalfPi == 1571
FTau == 6283

\* sin on [0, pi/2] by its Taylor series
SinQ(y) ==
    LET y2 == (y * y) \div Unit
        y3 == (y * y2) \div Unit
        y5 == (y3 * y2) \div Unit
        y7 == (y5 * y2) \div Unit
        y9 == (y7 * y2) \div Unit
    IN  Min2(Unit, y - y3 \div 6 + y5 \div 120 - y7 \div 5040 + y9 \div 362880)

\* torch.sin / math.sin for a fixed-point angle
RECURSIVE FSin(_)
FSin(y) ==
    IF y < 0 THEN 0 - FSin(0 - y)
    ELSE IF y >= FTau THEN FSin(y - FTau)
    ELSE IF y > FPi THEN 0 - FSin(y - FPi)
    ELSE IF y > FHalfPi THEN SinQ(FPi - y)
    ELSE SinQ(y)

\* torch.cos / math.cos
FCos(y) == FSin(FHalfPi - y)

\* torch.arctan of x >= 0: pi/2 - atan(1/x) above 1, one halving of the angle
\* (atan x = 2 atan(x / (1 + sqrt(1 + x^2)))), then the series
AtanSmall(x) ==
    LET x2 == (x * x) \div Unit
        x3 == (x * x2) \div Unit
        x5 == (x3 * x2) \div Unit
        x7 == (x5 * x2) \div Unit
    IN  x - x3 \div 3 + x5 \div 5 - x7 \div 7

AtanUnit(x) == 2 * AtanSmall(FDiv(x, Unit + FSqrt(Unit + FMul(x, x))))

FAtan(x) == IF x > Unit THEN FHalfPi - AtanUnit(FDiv(Unit, x)) ELSE AtanUnit(x)

\* torch.tan of an angle in [0, pi/2); NaN stays NaN
FTan(y) ==
    IF y = NaN THEN NaN
    ELSE IF FCos(y) = 0 THEN Unit * (2 ^ 17)
    ELSE FDiv(FSin(y), FCos(y))

\* round-half-to-even of the fraction num/den (den > 0): np.rint, torch.round
RoundHalfEven(num, den) ==
    LET q == num \div den
        r == num - q * den
    IN  IF 2 * r > den THEN q + 1
        ELSE IF 2 * r < den THEN q
        ELSE IF q % 2 = 0 THEN q ELSE q + 1

(***************************************************************************)
(* Sequences and arrays.                                                   *)
(***************************************************************************)
\* s[::-1]
Reverse(s) == [i \in 1..Len(s) |-> s[Len(s) + 1 - i]]

\* torch.linspace(a, b, n) / np.linspace(a, b, n): n points, both ends included
Linspace(a, b, n) ==
    [j \in 1..n |-> IF n = 1 THEN a ELSE a + ((b - a) * (j - 1)) \div (n - 1)]

\* np.interp(np.linspace(0, 1, k), np.linspace(0, 1, len(ys)), ys): piecewise
\* linear through the points (i/(m-1), ys[i]); the positions are exact fractions
InterpUnit(k, ys) ==
    LET m == Len(ys)
        At(j) ==
            IF m = 1 \/ k = 1 THEN ys[1]
            ELSE LET num == (j - 1) * (m - 1)
                     i   == num \div (k - 1)
                     rem == num - i * (k - 1)
                 IN  IF i >= m - 1 THEN ys[m]
                     ELSE ys[i + 1] + ((ys[i + 2] - ys[i + 1]) * rem) \div (k - 1)
    IN  [j \in 1..k |-> At(j)]

\* k_diffusion.sampling.append_zero / torch.cat([sigmas, sigmas.new_zeros([1])])
append_zero(s) == Append(s, 0)

\* what a call gives back: the returned tensor, or the exception it raised
Returned(s) == [raised |-> "none", sigmas |-> s]
Raised(e) == [raised |-> e, sigmas |-> <<>>]

(***************************************************************************)
(* Self-contained generators (need_inner_model = False).  opts is the      *)
(* configuration store shared.opts as it is read by the call.              *)
(***************************************************************************)
\* k_diffusion.sampling.get_sigmas_karras(n, sigma_min, sigma_max, rho, device)
sampling_get_sigmas_karras(n, sigma_min, sigma_max, rho) ==
    LET ramp == Linspace(0, Unit, n)
        min_inv_rho == FPow(sigma_min, FDiv(Unit, rho))
        max_inv_rho == FPow(sigma_max, FDiv(Unit, rho))
    IN  Returned(append_zero(
          [i \in 1..n |-> FPow(max_inv_rho + FMul(ramp[i], min_inv_rho - max_inv_rho), rho)]))

\* k_diffusion.sampling.get_sigmas_exponential(n, sigma_min, sigma_max, device)
sampling_get_sigmas_exponential(n, sigma_min, sigma_max) ==
    LET ls == Linspace(FLog(sigma_max), FLog(sigma_min), n)
    IN  Returned(append_zero([i \in 1..n |-> FExp(ls[i])]))

\* k_diffusion.sampling.get_sigmas_polyexponential(n, sigma_min, sigma_max, rho, device)
sampling_get_sigmas_polyexponential(n, sigma_min, sigma_max, rho) ==
    LET ramp == Linspace(Unit, 0, n)
    IN  Returned(append_zero(
          [i \in 1..n |-> FExp(FMul(FPow(ramp[i], rho), FLog(sigma_max) - FLog(sigma_min))
                               + FLog(sigma_min))]))

\* the module's own wrappers, which read the configuration store
get_sigmas_karras(n, sigma_min, sigma_max, opts) ==
    sampling_get_sigmas_karras(n, sigma_min, sigma_max, opts.karras_rho)

get_sigmas_exponential(n, sigma_min, sigma_max, opts) ==
    LET shrink_factor == opts.exponential_shrink_factor
        ls == Linspace(FLog(sigma_max), FLog(sigma_min), n)
        x  == Linspace(0, Unit, n)
    IN  Returned(append_zero(
          [i \in 1..n |-> FMul(FExp(ls[i]), FExp(FMul(shrink_factor, x[i])))]))

get_sigmas_polyexponential(n, sigma_min, sigma_max, opts) ==
    sampling_get_sigmas_polyexponential(n, sigma_min, sigma_max, opts.polyexponential_rho)

get_sigmas_sinusoidal_sf(n, sigma_min, sigma_max, opts) ==
    LET sf == opts.sinusoidal_sf_factor
        x  == Linspace(0, Unit, n)
        base(i) == FDiv(sigma_min + FMul(sigma_max - sigma_min,
                                         Unit - FSin(FMul(FHalfPi, x[i]))), sigma_max)
    IN  Returned([i \in 1..n |-> FMul(FPow(base(i), sf), sigma_max)])

get_sigmas_invcosinusoidal_sf(n, sigma_min, sigma_max, opts) ==
    LET sf == opts.invcosinusoidal_sf_factor
        x  == Linspace(0, Unit, n)
        base(i) == FDiv(sigma_min + FMul(sigma_max - sigma_min,
                                         (FCos(FMul(x[i], FPi)) + Unit) \div 2), sigma_max)
    IN  Returned([i \in 1..n |-> FMul(FPow(base(i), sf), sigma_max)])

get_sigmas_react_cosinusoidal_dynsf(n, sigma_min, sigma_max, opts) ==
    LET sf == opts.react_cosinusoidal_dynsf_factor
        x  == Linspace(0, Unit, n)
        base(i) == FDiv(sigma_min + FMul(sigma_max - sigma_min,
                                         FCos(FMul(x[i], FHalfPi))), sigma_max)
    IN  Returned([i \in 1..n |-> FMul(FPow(base(i), FMul(sf, (n * x[i]) \div n)), sigma_max)])

\* step_indices / n is a tensor division: 0/0 gives nan, it does not raise
kl_optimal(n, sigma_min, sigma_max) ==
    LET alpha_min == FAtan(sigma_min)
        alpha_max == FAtan(sigma_max)
        frac(step) == IF n = 0 THEN NaN ELSE (step * Unit) \div n
        angle(step) == IF frac(step) = NaN THEN NaN
                       ELSE FMul(frac(step), alpha_min) + FMul(Unit - frac(step), alpha_max)
    IN  Returned([i \in 1..(n + 1) |-> FTan(angle(i - 1))])

cosine_scheduler(n, sigma_min, sigma_max, opts) ==
    LET sf == opts.cosine_sf_factor
        p(x) == (x * Unit) \div (n - 1)
        C(x) == sigma_min + FMul((sigma_max - sigma_min) \div 2,
                                 Unit - FCos(FMul(FPi, Unit - FSqrt(p(x)))))
    IN  IF n = 1 THEN Returned(append_zero(<<FSqrt(sigma_max)>>))
        ELSE Returned(append_zero([i \in 1..n |-> FMul(C(i - 1), sf)]))

\* E is multiplied by K after every step, so step x sees sigma_max * K^x
cosexpblend_scheduler(n, sigma_min, sigma_max, opts) ==
    LET decay == opts.cosexpblend_exp_decay
        K == FPow(decay, FDiv(Unit, (n - 1) * Unit))
        E[x \in 0..MaxN + 1] == IF x = 0 THEN sigma_max ELSE FMul(E[x - 1], K)
        p(x) == (x * Unit) \div (n - 1)
        C(x) == sigma_min + FMul((sigma_max - sigma_min) \div 2,
                                 Unit - FCos(FMul(FPi, Unit - FSqrt(p(x)))))
    IN  IF n = 1 THEN Returned(append_zero(<<FSqrt(sigma_max)>>))
        ELSE IF decay = 0 /\ n - 1 < 0 THEN Raised("ZeroDivisionError")
        ELSE Returned(append_zero(
               [i \in 1..n |-> C(i - 1) + FMul(p(i - 1), E[i - 1] - C(i - 1))]))

phi_scheduler(n, sigma_min, sigma_max, opts) ==
    LET power == opts.phi_power
        phi == (Unit + FSqrt(5 * Unit)) \div 2
        v(x) == sigma_min + FMul(sigma_max - sigma_min,
                                 FPow(Unit - (x * Unit) \div (n - 1), FPow(phi, power)))
    IN  IF n = 1 THEN Returned(append_zero(<<FSqrt(sigma_max)>>))
        ELSE Returned(append_zero([i \in 1..n |-> v(i - 1)]))

\* epsilon = 1e-5 is below the fixed-point resolution: it only matters where
\* 1 - 2|0.5 - x| is 0, and log(epsilon) = -11.513 there
get_sigmas_laplace(n, sigma_min, sigma_max, opts) ==
    LET mu == opts.laplace_mu
        beta == opts.laplace_beta
        x == Linspace(0, Unit, n)
        clamp(v) == Max2(sigma_min, Min2(sigma_max, v))
        half == Unit \div 2
        sign(v) == IF v > 0 THEN 1 ELSE IF v < 0 THEN -1 ELSE 0
        arg(i) == Unit - 2 * Abs(half - x[i])
        lg(i) == IF arg(i) <= 0 THEN -11513 ELSE FLog(arg(i))
        lmb(i) == mu - sign(half - x[i]) * FMul(beta, lg(i))
    IN  Returned(append_zero([i \in 1..n |-> clamp(FExp(lmb(i)))]))

get_sigmas_karras_dynamic(n, sigma_min, sigma_max, opts) ==
    LET rho == opts.karras_dynamic_rho
        ramp == Linspace(0, Unit, n)
        min_inv_rho == FPow(sigma_min, FDiv(Unit, rho))
        max_inv_rho == FPow(sigma_max, FDiv(Unit, rho))
        v(i) == FPow(max_inv_rho + FMul(ramp[i + 1], min_inv_rho - max_inv_rho),
                     2 * FCos((i * FTau) \div n) + rho)
    IN  Returned(append_zero([i \in 1..n |-> v(i - 1)]))

(***************************************************************************)
(* The align-your-steps family.                                            *)
(***************************************************************************)
AYS_SDXL == <<14615, 6315, 3771, 2181, 1342, 862, 555, 380, 234, 113, 29>>
AYS_SD15 == <<14615, 6475, 3861, 2697, 1886, 1396, 963, 652, 399, 152, 29>>
GITS_SDXL == <<14615, 4734, 2567, 1529, 987, 652, 418, 268, 179, 127, 29>>
GITS_SD15 == <<14615, 4617, 2507, 1236, 702, 402, 240, 156, 104, 94, 29>>
AYS32_SDXL ==
    <<14615, 11149, 8505, 6488, 5437, 4604, 3899, 3274, 2744, 2300, 1954,
      1671, 1429, 1232, 1068, 926, 803, 697, 604, 529, 468, 414, 363, 310,
      265, 223, 177, 140, 106, 55, 29, 15>>
AYS32_SD15 ==
    <<14615, 11240, 8644, 6647, 5573, 4716, 3992, 3520, 3135, 2792, 2488,
      2217, 1975, 1779, 1615, 1465, 1315, 1166, 1035, 916, 807, 712, 622,
      531, 453, 375, 275, 201, 141, 67, 32, 15>>

\* the functions that interpolate a fixed table
AysFunctions ==
    {"get_align_your_steps_sigmas", "get_align_your_steps_sigmas_GITS",
     "ays_11_sigmas", "ays_32_sigmas"}

\* the list each function's literal evaluates to, by shared.sd_model.is_sdxl
AysLiterals ==
    [f \in AysFunctions |->
       [sdxl \in BOOLEAN |->
          CASE f = "get_align_your_steps_sigmas" -> IF sdxl THEN AYS_SDXL ELSE AYS_SD15
            [] f = "get_align_your_steps_sigmas_GITS" -> IF sdxl THEN GITS_SDXL ELSE GITS_SD15
            [] f = "ays_11_sigmas" -> IF sdxl THEN AYS_SDXL ELSE AYS_SD15
            [] f = "ays_32_sigmas" -> IF sdxl THEN AYS32_SDXL ELSE AYS32_SD15]]

\* loglinear_interp without the final [::-1]: the points in ascending order
loglinear_interp_unreversed(t_steps, num_steps) ==
    LET rev == Reverse(t_steps)
        ys == [i \in 1..Len(rev) |-> FLog(rev[i])]
        new_ys == InterpUnit(num_steps, ys)
    IN  [i \in 1..num_steps |-> FExp(new_ys[i])]

\* log-linear interpolation of a decreasing table to num_steps points
loglinear_interp(t_steps, num_steps) ==
    LET rev == Reverse(t_steps)
        ys == [i \in 1..Len(rev) |-> FLog(rev[i])]
        new_ys == InterpUnit(num_steps, ys)
    IN  Reverse([i \in 1..num_steps |-> FExp(new_ys[i])])

\* the body the four functions share: sigmas is the call's list
AysSigmas(sigmas, n) ==
    IF n # Len(sigmas) THEN Append(loglinear_interp(sigmas, n), 0)
    ELSE Append(sigmas, 0)

\* a table kept in one list shared by the calls: sigmas.append(0.0) would stay
LiteralShared(table, n) == IF n = Len(table) THEN Append(table, 0) ELSE table

\* the table a later call starts from: the list literal is evaluated anew by
\* every call, so sigmas.append(0.0) changes only the call's own list
LiteralAfter(table, n) == table

get_align_your_steps_sigmas(n, is_sdxl, tables) ==
    Returned(AysSigmas(tables["get_align_your_steps_sigmas"][is_sdxl], n))

get_align_your_steps_sigmas_GITS(n, is_sdxl, tables) ==
    Returned(AysSigmas(tables["get_align_your_steps_sigmas_GITS"][is_sdxl], n))

ays_11_sigmas(n, is_sdxl, tables) ==
    Returned(AysSigmas(tables["ays_11_sigmas"][is_sdxl], n))

ays_32_sigmas(n, is_sdxl, tables) ==
    Returned(AysSigmas(tables["ays_32_sigmas"][is_sdxl], n))

(***************************************************************************)
(* The custom list: opts.ays_custom_sigmas is a Python value, a string     *)
(* (a sequence of characters) or something else (None).                    *)
(***************************************************************************)
Chars == {"[", "]", ",", " ", "2", "a"}
Digits == {"0", "1", "2", "3", "4", "5", "6", "7", "8", "9"}
DigitValue(c) ==
    CASE c = "0" -> 0 [] c = "1" -> 1 [] c = "2" -> 2 [] c = "3" -> 3 [] c = "4" -> 4
      [] c = "5" -> 5 [] c = "6" -> 6 [] c = "7" -> 7 [] c = "8" -> 8 [] c = "9" -> 9

\* str.strip(chars): drop the leading and trailing characters that are in chars
RECURSIVE LStrip(_, _)
LStrip(str, chars) ==
    IF str # <<>> /\ Head(str) \in chars THEN LStrip(Tail(str), chars) ELSE str

Strip(str, chars) == Reverse(LStrip(Reverse(LStrip(str, chars)), chars))

\* str.split(','): the pieces between the commas (always at least one piece)
RECURSIVE Split(_, _)
Split(str, cur) ==
    IF str = <<>> THEN <<cur>>
    ELSE IF Head(str) = "," THEN <<cur>> \o Split(Tail(str), <<>>)
    ELSE Split(Tail(str), Append(cur, Head(str)))

\* float(x) of a stripped piece: it raises ValueError unless the piece is a
\* decimal numeral (the characters of Chars allow no sign, point or exponent)
IsFloat(piece) == piece # <<>> /\ \A i \in 1..Len(piece) : piece[i] \in Digits

RECURSIVE Numeral(_)
Numeral(piece) ==
    IF piece = <<>> THEN 0
    ELSE 10 * Numeral(SubSeq(piece, 1, Len(piece) - 1)) + DigitValue(piece[Len(piece)])

Float(piece) == Numeral(piece) * Unit

\* a handler that catches the failed conversion only (except ValueError)
caught_value_error == {"ValueError"}

\* the exceptions the try block catches (except Exception)
caught_exceptions == {"AttributeError", "ValueError"}

\* the try block of get_sigmas_ays_custom
ays_custom_try(n, value) ==
    IF ~value.is_str THEN Raised("AttributeError")
    ELSE LET sigmas_values == Split(Strip(value.chars, {"[", "]"}), <<>>)
             pieces == [i \in 1..Len(sigmas_values) |-> Strip(sigmas_values[i], {" "})]
             sigmas == [i \in 1..Len(pieces) |-> Float(pieces[i])]
         IN  IF \E i \in 1..Len(pieces) : ~IsFloat(pieces[i]) THEN Raised("ValueError")
             ELSE IF n # Len(sigmas) THEN Returned(Append(InterpUnit(n, sigmas), 0))
             ELSE Returned(Append(sigmas, 0))

get_sigmas_ays_custom(n, is_sdxl, tables, opts) ==
    LET tried == ays_custom_try(n, opts.ays_custom_sigmas)
    IN  IF tried.raised \in caught_exceptions
        THEN get_align_your_steps_sigmas(n, is_sdxl, tables)
        ELSE tried

(***************************************************************************)
(* The host model (inner_model): its native table inner_model.sigmas, in   *)
(* ascending order, and its conversions between sigma and timestep.        *)
(***************************************************************************)
\* a native table of L log-evenly spaced sigmas from 0.029 to 14.615
HostTable(L) ==
    [i \in 1..L |-> FExp(FLog(29) + ((FLog(14615) - FLog(29)) * (i - 1)) \div (L - 1))]

\* inner_model.sigma_to_t: the fractional index of sigma in the table
sigma_to_t(inner_model, sigma) ==
    LET L == Len(inner_model.sigmas)
        log_sigmas == [i \in 1..L |-> FLog(inner_model.sigmas[i])]
        ls == FLog(sigma)
        below == Cardinality({i \in 1..L : log_sigmas[i] <= ls})
        low_idx == Max2(0, Min2(below - 1, L - 2))
        low == log_sigmas[low_idx + 1]
        high == log_sigmas[low_idx + 2]
        w == Max2(0, Min2(Unit, ((low - ls) * Unit) \div (low - high)))
    IN  low_idx * Unit + w

\* inner_model.t_to_sigma: log-linear between the two neighbouring entries
t_to_sigma(inner_model, t) ==
    LET L == Len(inner_model.sigmas)
        log_sigmas == [i \in 1..L |-> FLog(inner_model.sigmas[i])]
        low_idx == t \div Unit
        w == t - low_idx * Unit
        high_idx == IF w = 0 THEN low_idx ELSE low_idx + 1
    IN  FExp(((Unit - w) * log_sigmas[low_idx + 1] + w * log_sigmas[high_idx + 1]) \div Unit)

\* inner_model.get_sigmas(n): the host's own schedule, n values ending in 0
inner_model_get_sigmas(inner_model, n) ==
    LET t_max == (Len(inner_model.sigmas) - 1) * Unit
        ts == Linspace(t_max, 0, n - 1)
    IN  IF n = 0 THEN <<>>
        ELSE Append([i \in 1..(n - 1) |-> t_to_sigma(inner_model, ts[i])], 0)

\* unet.model.model_sampling.sigma(timestep) for a timestep in 0..999
model_sampling_sigma(timestep) ==
    FExp(FLog(29) + ((FLog(14615) - FLog(29)) * timestep) \div 999)

(***************************************************************************)
(* Host-model-dependent generators (need_inner_model = True).              *)
(***************************************************************************)
uniform(n, sigma_min, sigma_max, inner_model) ==
    Returned(inner_model_get_sigmas(inner_model, n))

sgm_uniform(n, sigma_min, sigma_max, inner_model) ==
    LET start == sigma_to_t(inner_model, sigma_max)
        end == sigma_to_t(inner_model, sigma_min)
        ts == Linspace(start, end, n + 1)
    IN  Returned(Append([i \in 1..n |-> t_to_sigma(inner_model, ts[i])], 0))

\* ss = len / n is a Python float division: n = 0 raises
\* int(x * ss) with ss = len / n a float: for the lengths and step counts of the
\* model it is floor(x * len / n)
simple_scheduler(n, sigma_min, sigma_max, inner_model) ==
    LET L == Len(inner_model.sigmas)
        idx(x) == L - ((x * L) \div n)
    IN  IF n = 0 THEN Raised("ZeroDivisionError")
        ELSE Returned(Append([i \in 1..n |-> inner_model.sigmas[idx(i - 1)]], 0))

\* the registry calls it with sgm = False
normal_scheduler(n, sigma_min, sigma_max, inner_model) ==
    LET start == sigma_to_t(inner_model, sigma_max)
        end == sigma_to_t(inner_model, sigma_min)
        timesteps == Linspace(start, end, n)
    IN  Returned(Append([i \in 1..n |-> t_to_sigma(inner_model, timesteps[i])], 0))

\* the while loop: sigmas[x] for x = 1, 1 + ss, 1 + 2 ss, ... < len (0-based)
RECURSIVE ddim_loop(_, _, _)
ddim_loop(table, x, ss) ==
    IF x < Len(table) THEN <<table[x + 1]>> \o ddim_loop(table, x + ss, ss) ELSE <<>>

\* len // n is an integer division: n = 0 raises
ddim_scheduler(n, sigma_min, sigma_max, inner_model) ==
    LET L == Len(inner_model.sigmas)
        ss == Max2(L \div n, 1)
    IN  IF n = 0 THEN Raised("ZeroDivisionError")
        ELSE Returned(Append(Reverse(ddim_loop(inner_model.sigmas, 1, ss)), 0))

\* scipy.stats.beta.ppf(q, alpha, beta) for the two shapes the model draws:
\* Beta(1, 1) is uniform (ppf q = q), Beta(1/2, 1/2) is the arcsine law
\* (ppf q = sin^2(pi q / 2))
beta_ppf(q, alpha, beta) ==
    IF alpha = Unit /\ beta = Unit THEN q
    ELSE FMul(FSin(FMul(FHalfPi, q)), FSin(FMul(FHalfPi, q)))

\* the for loop: consecutive repeats of a timestep are skipped
RECURSIVE beta_loop(_, _, _)
beta_loop(table, ts, last_t) ==
    IF ts = <<>> THEN <<>>
    ELSE (IF Head(ts) # last_t THEN <<table[Head(ts) + 1]>> ELSE <<>>)
         \o beta_loop(table, Tail(ts), Head(ts))

beta_scheduler(n, sigma_min, sigma_max, inner_model, opts) ==
    LET alpha == opts.beta_dist_alpha
        beta == opts.beta_dist_beta
        total_timesteps == Len(inner_model.sigmas) - 1
        q(j) == Unit - (j * Unit) \div n
        ts == [i \in 1..n |->
                 RoundHalfEven(beta_ppf(q(i - 1), alpha, beta) * total_timesteps, Unit)]
    IN  Returned(Append(beta_loop(inner_model.sigmas, ts, -1), 0))

\* float(1000.0 / n) is a Python float division: n = 0 raises
turbo_scheduler(n, sigma_min, sigma_max, inner_model) ==
    LET clip(v) == Max2(0, Min2(999, v))
        timestep(k) == clip(RoundHalfEven(1000 * k - n, n))
        timesteps == Reverse([k \in 1..n |-> timestep(k)])
    IN  IF n = 0 THEN Raised("ZeroDivisionError")
        ELSE Returned(Append([i \in 1..n |-> model_sampling_sigma(timesteps[i])], 0))

(***************************************************************************)
(* The scheduler list and the registry.                                    *)
(***************************************************************************)
\* the dataclass: function is the name of the function the descriptor holds,
\* default_rho = -1 and aliases = None (here <<>>) are the defaults
Scheduler(name, label, function, default_rho, need_inner_model, aliases) ==
    [name |-> name, label |-> label, function |-> function,
     default_rho |-> default_rho, need_inner_model |-> need_inner_model,
     aliases |-> aliases]

schedulers ==
    <<
      Scheduler("automatic", "Automatic", "None", 0 - Unit, FALSE, <<>>),
      Scheduler("karras", "Karras", "sampling.get_sigmas_karras", 7 * Unit, FALSE, <<>>),
      Scheduler("exponential", "Exponential", "sampling.get_sigmas_exponential", 0 - Unit, FALSE, <<>>),
      Scheduler("polyexponential", "Polyexponential", "sampling.get_sigmas_polyexponential", 1 * Unit, FALSE, <<>>),
      Scheduler("sinusoidal_sf", "Sinusoidal SF", "get_sigmas_sinusoidal_sf", 0 - Unit, FALSE, <<>>),
      Scheduler("invcosinusoidal_sf", "Invcosinusoidal SF", "get_sigmas_invcosinusoidal_sf", 0 - Unit, FALSE, <<>>),
      Scheduler("react_cosinusoidal_dynsf", "React Cosinusoidal DynSF", "get_sigmas_react_cosinusoidal_dynsf", 0 - Unit, FALSE, <<>>),
      Scheduler("uniform", "Uniform", "uniform", 0 - Unit, TRUE, <<>>),
      Scheduler("sgm_uniform", "SGM Uniform", "sgm_uniform", 0 - Unit, TRUE, <<"SGMUniform">>),
      Scheduler("kl_optimal", "KL Optimal", "kl_optimal", 0 - Unit, FALSE, <<>>),
      Scheduler("simple", "Simple", "simple_scheduler", 0 - Unit, TRUE, <<>>),
      Scheduler("normal", "Normal", "normal_scheduler", 0 - Unit, TRUE, <<>>),
      Scheduler("ddim", "DDIM", "ddim_scheduler", 0 - Unit, TRUE, <<>>),
      Scheduler("align_your_steps", "Align Your Steps", "get_align_your_steps_sigmas", 0 - Unit, FALSE, <<>>),
      Scheduler("align_your_steps_custom", "Align Your Steps Custom", "get_sigmas_ays_custom", 0 - Unit, FALSE, <<>>),
      Scheduler("beta", "Beta", "beta_scheduler", 0 - Unit, TRUE, <<>>),
      Scheduler("turbo", "Turbo", "turbo_scheduler", 0 - Unit, TRUE, <<>>),
      Scheduler("cosine", "Cosine", "cosine_scheduler", 0 - Unit, FALSE, <<>>),
      Scheduler("cosine-exponential blend", "Cosine-exponential Blend", "cosexpblend_scheduler", 0 - Unit, FALSE, <<>>),
      Scheduler("phi", "Phi", "phi_scheduler", 0 - Unit, FALSE, <<>>),
      Scheduler("laplace", "Laplace", "get_sigmas_laplace", 0 - Unit, FALSE, <<>>),
      Scheduler("karras dynamic", "Karras Dynamic", "get_sigmas_karras_dynamic", 0 - Unit, FALSE, <<>>),
      Scheduler("align_your_steps_GITS", "Align Your Steps GITS", "get_align_your_steps_sigmas_GITS", 0 - Unit, FALSE, <<>>),
      Scheduler("align_your_steps_11", "Align Your Steps 11", "ays_11_sigmas", 0 - Unit, FALSE, <<>>),
      Scheduler("align_your_steps_32", "Align Your Steps 32", "ays_32_sigmas", 0 - Unit, FALSE, <<>>)
    >>

\* the position of the last occurrence of k in keys: a dict comprehension
\* keeps the value of the last occurrence of a key
LastWith(keys, k) ==
    CHOOSE i \in DOMAIN keys :
        /\ keys[i] = k
        /\ \A j \in DOMAIN keys : keys[j] = k => j <= i

\* {x.name: x for x in list}; a descriptor is identified by its position
NameDict(list) ==
    LET keys == [i \in DOMAIN list |-> list[i].name]
    IN  [k \in {keys[i] : i \in DOMAIN keys} |-> LastWith(keys, k)]

\* {x.label: x for x in list}
LabelDict(list) ==
    LET keys == [i \in DOMAIN list |-> list[i].label]
    IN  [k \in {keys[i] : i \in DOMAIN keys} |-> LastWith(keys, k)]

\* {**a, **b}: the entries of a, then those of b over them
DictMerge(a, b) ==
    [k \in DOMAIN a \cup DOMAIN b |-> IF k \in DOMAIN b THEN b[k] ELSE a[k]]

\* a map keyed by the ids alone
schedulers_map_of_names(list) == NameDict(list)

\* schedulers_map, as the expression builds it from a list of descriptors
schedulers_map_of(list) == DictMerge(NameDict(list), LabelDict(list))

\* schedulers_map.get(key): the descriptor's position, or 0 for None
map_get(map, key) == IF key \in DOMAIN map THEN map[key] ELSE 0

(***************************************************************************)
(* The inputs the calls are made with.                                     *)
(***************************************************************************)
\* the step counts
Steps == 0..MaxN
\* the step counts of the calls of the custom-list generator
CustomSteps == 0..MaxCustomN
\* (sigma_min, sigma_max) with 0 < sigma_min < sigma_max
SigmaRanges == {<<29, 14615>>, <<500, 2000>>}
\* the range of the calls of the custom-list generator, which does not read it
CustomRanges == {<<29, 14615>>}

\* the configuration store shared.opts, with every option at a usual value
DefaultOpts ==
    [karras_rho |-> 7 * Unit,
     exponential_shrink_factor |-> 0,
     polyexponential_rho |-> Unit,
     sinusoidal_sf_factor |-> Unit,
     invcosinusoidal_sf_factor |-> Unit,
     react_cosinusoidal_dynsf_factor |-> Unit,
     ays_custom_sigmas |-> [is_str |-> TRUE, chars |-> <<"2", "2", ",", "2">>],
     beta_dist_alpha |-> Unit \div 2,
     beta_dist_beta |-> Unit \div 2,
     cosine_sf_factor |-> Unit,
     cosexpblend_exp_decay |-> (9 * Unit) \div 10,
     phi_power |-> 2 * Unit,
     laplace_mu |-> 0,
     laplace_beta |-> Unit \div 2,
     karras_dynamic_rho |-> 7 * Unit]

\* the values an option is set to
RhoValues == {7 * Unit, 3 * Unit}
ShrinkValues == {0, Unit \div 2}
PolyRhoValues == {Unit, 2 * Unit}
SfValues == {Unit, (7 * Unit) \div 2}
DecayValues == {(9 * Unit) \div 10, 0}
PowerValues == {2 * Unit, Unit}
LaplaceValues == {<<0, Unit \div 2>>, <<Unit, 2 * Unit>>}
BetaValues == {<<Unit \div 2, Unit \div 2>>, <<Unit, Unit>>}

\* the values of opts.ays_custom_sigmas: the strings of up to MaxStrLen
\* characters, and a value that is not a string
Strings == UNION {[1..m -> Chars] : m \in 0..MaxStrLen}
CustomValues ==
    {[is_str |-> TRUE, chars |-> c] : c \in Strings}
        \cup {[is_str |-> FALSE, chars |-> <<>>]}

\* the descriptor lists a registry is built from, over three keys
TrialKeys == {"a", "b", "c"}
TrialDescs ==
    {Scheduler(k, l, "None", 0 - Unit, FALSE, <<>>) : k \in TrialKeys, l \in TrialKeys}
TrialLists == UNION {[1..m -> TrialDescs] : m \in 1..MaxDescs}

\* every key a lookup is made with: ids, labels, aliases and an unknown key
LookupKeys ==
    {schedulers[i].name : i \in DOMAIN schedulers}
        \cup {schedulers[i].label : i \in DOMAIN schedulers}
        \cup UNION {{schedulers[i].aliases[j] : j \in DOMAIN schedulers[i].aliases} :
                      i \in DOMAIN schedulers}
        \cup {"no such scheduler"}

(***************************************************************************)
(* State.                                                                  *)
(***************************************************************************)
VARIABLES
    schedulers_map,   \* the module-level registry dict
    inner_model,      \* the host model: [sigmas |-> its native table]
    ays_tables,       \* the fixed align-your-steps tables a call starts from
    call,             \* the operation made, with its arguments
    result,           \* what the operation gave back
    pc                \* idle, called (a generator is about to run) or returned

vars == <<schedulers_map, inner_model, ays_tables, call, result, pc>>

Init ==
    /\ schedulers_map = schedulers_map_of(schedulers)
    /\ inner_model \in {[sigmas |-> HostTable(L)] : L \in 2..MaxL}
    /\ ays_tables = AysLiterals
    /\ call = [op |-> "idle"]
    /\ result = [raised |-> "none"]
    /\ pc = "idle"

\* descriptor.function(n, sigma_min, sigma_max, [inner_model], device): a library
\* function with a rho parameter runs with its default, the descriptor's default_rho
Generate(d, n, sigma_min, sigma_max, is_sdxl, opts, model, tables) ==
    LET f == d.function
    IN  CASE f = "sampling.get_sigmas_karras" ->
               sampling_get_sigmas_karras(n, sigma_min, sigma_max, d.default_rho)
          [] f = "sampling.get_sigmas_exponential" ->
               sampling_get_sigmas_exponential(n, sigma_min, sigma_max)
          [] f = "sampling.get_sigmas_polyexponential" ->
               sampling_get_sigmas_polyexponential(n, sigma_min, sigma_max, d.default_rho)
          [] f = "get_sigmas_sinusoidal_sf" ->
               get_sigmas_sinusoidal_sf(n, sigma_min, sigma_max, opts)
          [] f = "get_sigmas_invcosinusoidal_sf" ->
               get_sigmas_invcosinusoidal_sf(n, sigma_min, sigma_max, opts)
          [] f = "get_sigmas_react_cosinusoidal_dynsf" ->
               get_sigmas_react_cosinusoidal_dynsf(n, sigma_min, sigma_max, opts)
          [] f = "uniform" -> uniform(n, sigma_min, sigma_max, model)
          [] f = "sgm_uniform" -> sgm_uniform(n, sigma_min, sigma_max, model)
          [] f = "kl_optimal" -> kl_optimal(n, sigma_min, sigma_max)
          [] f = "simple_scheduler" -> simple_scheduler(n, sigma_min, sigma_max, model)
          [] f = "normal_scheduler" -> normal_scheduler(n, sigma_min, sigma_max, model)
          [] f = "ddim_scheduler" -> ddim_scheduler(n, sigma_min, sigma_max, model)
          [] f = "get_align_your_steps_sigmas" ->
               get_align_your_steps_sigmas(n, is_sdxl, tables)
          [] f = "get_sigmas_ays_custom" ->
               get_sigmas_ays_custom(n, is_sdxl, tables, opts)
          [] f = "beta_scheduler" -> beta_scheduler(n, sigma_min, sigma_max, model, opts)
          [] f = "turbo_scheduler" -> turbo_scheduler(n, sigma_min, sigma_max, model)
          [] f = "cosine_scheduler" -> cosine_scheduler(n, sigma_min, sigma_max, opts)
          [] f = "cosexpblend_scheduler" ->
               cosexpblend_scheduler(n, sigma_min, sigma_max, opts)
          [] f = "phi_scheduler" -> phi_scheduler(n, sigma_min, sigma_max, opts)
          [] f = "get_sigmas_laplace" -> get_sigmas_laplace(n, sigma_min, sigma_max, opts)
          [] f = "get_sigmas_karras_dynamic" ->
               get_sigmas_karras_dynamic(n, sigma_min, sigma_max, opts)
          [] f = "get_align_your_steps_sigmas_GITS" ->
               get_align_your_steps_sigmas_GITS(n, is_sdxl, tables)
          [] f = "ays_11_sigmas" -> ays_11_sigmas(n, is_sdxl, tables)
          [] f = "ays_32_sigmas" -> ays_32_sigmas(n, is_sdxl, tables)

\* the fixed table the function f reads: the custom generator reads the
\* default one when it falls back
TableRead(f, n, opts) ==
    IF f \in AysFunctions THEN f
    ELSE IF f = "get_sigmas_ays_custom"
            /\ ays_custom_try(n, opts.ays_custom_sigmas).raised \in caught_exceptions
         THEN "get_align_your_steps_sigmas"
    ELSE "none"

\* the tables after a call of f
TablesAfter(tables, f, n, is_sdxl, opts) ==
    LET t == TableRead(f, n, opts)
    IN  IF t = "none" THEN tables
        ELSE [tables EXCEPT ![t][is_sdxl] = LiteralAfter(@, n)]

\* a sampler resolves the scheduler id and calls the generator of the
\* descriptor it finds: the call as it is made
CallOf(id, n, range, is_sdxl, opts) ==
    [op |-> "generate", id |-> id,
     function |-> schedulers[map_get(schedulers_map, id)].function, n |-> n,
     sigma_min |-> range[1], sigma_max |-> range[2], is_sdxl |-> is_sdxl, opts |-> opts]

(***************************************************************************)
(* Actions: one per registered generator, the lookup and the build of a    *)
(* registry; every operation is synchronous, one at a time.  A generator   *)
(* action is the sampler's call with its arguments, Run is the function    *)
(* called, from entry to return.  The model family                         *)
(* shared.sd_model.is_sdxl is read by the align-your-steps family only;    *)
(* the other calls are recorded with FALSE.                                *)
(***************************************************************************)
Karras ==
    /\ pc = "idle"
    /\ \E n \in Steps, range \in SigmaRanges, rho \in RhoValues :
        /\ call' = CallOf("karras", n, range, FALSE, [DefaultOpts EXCEPT !.karras_rho = rho])
        /\ pc' = "called"
        /\ UNCHANGED <<schedulers_map, inner_model, ays_tables, result>>

Exponential ==
    /\ pc = "idle"
    /\ \E n \in Steps, range \in SigmaRanges, shrink \in ShrinkValues :
        /\ call' = CallOf("exponential", n, range, FALSE, [DefaultOpts EXCEPT !.exponential_shrink_factor = shrink])
        /\ pc' = "called"
        /\ UNCHANGED <<schedulers_map, inner_model, ays_tables, result>>

Polyexponential ==
    /\ pc = "idle"
    /\ \E n \in Steps, range \in SigmaRanges, rho \in PolyRhoValues :
        /\ call' = CallOf("polyexponential", n, range, FALSE, [DefaultOpts EXCEPT !.polyexponential_rho = rho])
        /\ pc' = "called"
        /\ UNCHANGED <<schedulers_map, inner_model, ays_tables, result>>

SinusoidalSF ==
    /\ pc = "idle"
    /\ \E n \in Steps, range \in SigmaRanges, sf \in SfValues :
        /\ call' = CallOf("sinusoidal_sf", n, range, FALSE, [DefaultOpts EXCEPT !.sinusoidal_sf_factor = sf])
        /\ pc' = "called"
        /\ UNCHANGED <<schedulers_map, inner_model, ays_tables, result>>

InvcosinusoidalSF ==
    /\ pc = "idle"
    /\ \E n \in Steps, range \in SigmaRanges, sf \in SfValues :
        /\ call' = CallOf("invcosinusoidal_sf", n, range, FALSE, [DefaultOpts EXCEPT !.invcosinusoidal_sf_factor = sf])
        /\ pc' = "called"
        /\ UNCHANGED <<schedulers_map, inner_model, ays_tables, result>>

ReactCosinusoidalDynSF ==
    /\ pc = "idle"
    /\ \E n \in Steps, range \in SigmaRanges, sf \in SfValues :
        /\ call' = CallOf("react_cosinusoidal_dynsf", n, range, FALSE, [DefaultOpts EXCEPT !.react_cosinusoidal_dynsf_factor = sf])
        /\ pc' = "called"
        /\ UNCHANGED <<schedulers_map, inner_model, ays_tables, result>>

Uniform ==
    /\ pc = "idle"
    /\ \E n \in Steps, range \in SigmaRanges :
        /\ call' = CallOf("uniform", n, range, FALSE, DefaultOpts)
        /\ pc' = "called"
        /\ UNCHANGED <<schedulers_map, inner_model, ays_tables, result>>

SGMUniform ==
    /\ pc = "idle"
    /\ \E n \in Steps, range \in SigmaRanges :
        /\ call' = CallOf("sgm_uniform", n, range, FALSE, DefaultOpts)
        /\ pc' = "called"
        /\ UNCHANGED <<schedulers_map, inner_model, ays_tables, result>>

KLOptimal ==
    /\ pc = "idle"
    /\ \E n \in Steps, range \in SigmaRanges :
        /\ call' = CallOf("kl_optimal", n, range, FALSE, DefaultOpts)
        /\ pc' = "called"
        /\ UNCHANGED <<schedulers_map, inner_model, ays_tables, result>>

Simple ==
    /\ pc = "idle"
    /\ \E n \in Steps, range \in SigmaRanges :
        /\ call' = CallOf("simple", n, range, FALSE, DefaultOpts)
        /\ pc' = "called"
        /\ UNCHANGED <<schedulers_map, inner_model, ays_tables, result>>

Normal ==
    /\ pc = "idle"
    /\ \E n \in Steps, range \in SigmaRanges :
        /\ call' = CallOf("normal", n, range, FALSE, DefaultOpts)
        /\ pc' = "called"
        /\ UNCHANGED <<schedulers_map, inner_model, ays_tables, result>>

DDIM ==
    /\ pc = "idle"
    /\ \E n \in Steps, range \in SigmaRanges :
        /\ call' = CallOf("ddim", n, range, FALSE, DefaultOpts)
        /\ pc' = "called"
        /\ UNCHANGED <<schedulers_map, inner_model, ays_tables, result>>

AlignYourSteps ==
    /\ pc = "idle"
    /\ \E n \in Steps, range \in SigmaRanges, is_sdxl \in BOOLEAN :
        /\ call' = CallOf("align_your_steps", n, range, is_sdxl, DefaultOpts)
        /\ pc' = "called"
        /\ UNCHANGED <<schedulers_map, inner_model, ays_tables, result>>

AlignYourStepsCustom ==
    /\ pc = "idle"
    /\ \E n \in CustomSteps, range \in CustomRanges, is_sdxl \in BOOLEAN, value \in CustomValues :
        /\ call' = CallOf("align_your_steps_custom", n, range, is_sdxl, [DefaultOpts EXCEPT !.ays_custom_sigmas = value])
        /\ pc' = "called"
        /\ UNCHANGED <<schedulers_map, inner_model, ays_tables, result>>

Beta ==
    /\ pc = "idle"
    /\ \E n \in Steps, range \in SigmaRanges, ab \in BetaValues :
        /\ call' = CallOf("beta", n, range, FALSE, [DefaultOpts EXCEPT !.beta_dist_alpha = ab[1], !.beta_dist_beta = ab[2]])
        /\ pc' = "called"
        /\ UNCHANGED <<schedulers_map, inner_model, ays_tables, result>>

Turbo ==
    /\ pc = "idle"
    /\ \E n \in Steps, range \in SigmaRanges :
        /\ call' = CallOf("turbo", n, range, FALSE, DefaultOpts)
        /\ pc' = "called"
        /\ UNCHANGED <<schedulers_map, inner_model, ays_tables, result>>

Cosine ==
    /\ pc = "idle"
    /\ \E n \in Steps, range \in SigmaRanges, sf \in SfValues :
        /\ call' = CallOf("cosine", n, range, FALSE, [DefaultOpts EXCEPT !.cosine_sf_factor = sf])
        /\ pc' = "called"
        /\ UNCHANGED <<schedulers_map, inner_model, ays_tables, result>>

CosineExponentialBlend ==
    /\ pc = "idle"
    /\ \E n \in Steps, range \in SigmaRanges, decay \in DecayValues :
        /\ call' = CallOf("cosine-exponential blend", n, range, FALSE, [DefaultOpts EXCEPT !.cosexpblend_exp_decay = decay])
        /\ pc' = "called"
        /\ UNCHANGED <<schedulers_map, inner_model, ays_tables, result>>

Phi ==
    /\ pc = "idle"
    /\ \E n \in Steps, range \in SigmaRanges, power \in PowerValues :
        /\ call' = CallOf("phi", n, range, FALSE, [DefaultOpts EXCEPT !.phi_power = power])
        /\ pc' = "called"
        /\ UNCHANGED <<schedulers_map, inner_model, ays_tables, result>>

Laplace ==
    /\ pc = "idle"
    /\ \E n \in Steps, range \in SigmaRanges, mb \in LaplaceValues :
        /\ call' = CallOf("laplace", n, range, FALSE, [DefaultOpts EXCEPT !.laplace_mu = mb[1], !.laplace_beta = mb[2]])
        /\ pc' = "called"
        /\ UNCHANGED <<schedulers_map, inner_model, ays_tables, result>>

KarrasDynamic ==
    /\ pc = "idle"
    /\ \E n \in Steps, range \in SigmaRanges, rho \in RhoValues :
        /\ call' = CallOf("karras dynamic", n, range, FALSE, [DefaultOpts EXCEPT !.karras_dynamic_rho = rho])
        /\ pc' = "called"
        /\ UNCHANGED <<schedulers_map, inner_model, ays_tables, result>>

AlignYourStepsGITS ==
    /\ pc = "idle"
    /\ \E n \in Steps, range \in SigmaRanges, is_sdxl \in BOOLEAN :
        /\ call' = CallOf("align_your_steps_GITS", n, range, is_sdxl, DefaultOpts)
        /\ pc' = "called"
        /\ UNCHANGED <<schedulers_map, inner_model, ays_tables, result>>

AlignYourSteps11 ==
    /\ pc = "idle"
    /\ \E n \in Steps, range \in SigmaRanges, is_sdxl \in BOOLEAN :
        /\ call' = CallOf("align_your_steps_11", n, range, is_sdxl, DefaultOpts)
        /\ pc' = "called"
        /\ UNCHANGED <<schedulers_map, inner_model, ays_tables, result>>

AlignYourSteps32 ==
    /\ pc = "idle"
    /\ \E n \in Steps, range \in SigmaRanges, is_sdxl \in BOOLEAN :
        /\ call' = CallOf("align_your_steps_32", n, range, is_sdxl, DefaultOpts)
        /\ pc' = "called"
        /\ UNCHANGED <<schedulers_map, inner_model, ays_tables, result>>

\* the generator called runs and returns (or raises)
Run ==
    /\ pc = "called"
    /\ result' = Generate(schedulers[map_get(schedulers_map, call.id)], call.n,
                          call.sigma_min, call.sigma_max, call.is_sdxl, call.opts,
                          inner_model, ays_tables)
    /\ ays_tables' = TablesAfter(ays_tables, call.function, call.n, call.is_sdxl, call.opts)
    /\ pc' = "returned"
    /\ UNCHANGED <<schedulers_map, inner_model, call>>

\* schedulers_map.get(key)
Resolve ==
    /\ pc = "idle"
    /\ \E key \in LookupKeys :
        /\ call' = [op |-> "resolve", key |-> key]
        /\ result' = [raised |-> "none", found |-> map_get(schedulers_map, key)]
        /\ pc' = "returned"
        /\ UNCHANGED <<schedulers_map, inner_model, ays_tables>>

\* the registry expression evaluated over another descriptor list
BuildRegistry ==
    /\ pc = "idle"
    /\ \E list \in TrialLists :
        /\ call' = [op |-> "build", list |-> list]
        /\ result' = [raised |-> "none", map |-> schedulers_map_of(list)]
        /\ pc' = "returned"
        /\ UNCHANGED <<schedulers_map, inner_model, ays_tables>>

\* the caller takes the result: the next operation starts from the registry,
\* the tables and the host model as this one left them
Consume ==
    /\ pc = "returned"
    /\ call' = [op |-> "idle"]
    /\ result' = [raised |-> "none"]
    /\ pc' = "idle"
    /\ UNCHANGED <<schedulers_map, inner_model, ays_tables>>

Next ==
    \/ Karras
    \/ Exponential
    \/ Polyexponential
    \/ SinusoidalSF
    \/ InvcosinusoidalSF
    \/ ReactCosinusoidalDynSF
    \/ Uniform
    \/ SGMUniform
    \/ KLOptimal
    \/ Simple
    \/ Normal
    \/ DDIM
    \/ AlignYourSteps
    \/ AlignYourStepsCustom
    \/ Beta
    \/ Turbo
    \/ Cosine
    \/ CosineExponentialBlend
    \/ Phi
    \/ Laplace
    \/ KarrasDynamic
    \/ AlignYourStepsGITS
    \/ AlignYourSteps11
    \/ AlignYourSteps32
    \/ Run
    \/ Resolve
    \/ BuildRegistry
    \/ Consume

Spec == Init /\ [][Next]_vars

(***************************************************************************)
(* Properties.                                                             *)
(***************************************************************************)
Last(s) == s[Len(s)]
NonIncreasing(s) == \A i \in 1..(Len(s) - 1) : s[i] >= s[i + 1]
\* a generator call has returned (or raised)
Generated == pc = "returned" /\ call.op = "generate"
\* a lookup has returned
Resolved == pc = "returned" /\ call.op = "resolve"
\* the ids of the self-contained generators of the registry
SelfContainedIds ==
    {schedulers[i].name : i \in {j \in DOMAIN schedulers :
        ~schedulers[j].need_inner_model /\ schedulers[j].function # "None"}}

\* C1: every self-contained generator of the registry, called with n >= 1 and
\* 0 < sigma_min < sigma_max, returns exactly n + 1 values, the last exactly 0.0.
C1_SelfContainedTerminated ==
    (Generated /\ call.id \in SelfContainedIds /\ call.n >= 1)
        => /\ result.raised = "none"
           /\ Len(result.sigmas) = call.n + 1
           /\ Last(result.sigmas) = 0

\* C2: for every descriptor of the scheduler list, looking up its id and looking
\* up its label in the registry map both give that very descriptor, in the map
\* as it stands and in every lookup made.
C2_IdAndLabelResolve ==
    /\ \A i \in DOMAIN schedulers :
          /\ map_get(schedulers_map, schedulers[i].name) = i
          /\ map_get(schedulers_map, schedulers[i].label) = i
    /\ Resolved =>
          \A i \in DOMAIN schedulers :
              call.key \in {schedulers[i].name, schedulers[i].label} => result.found = i

\* C2 witness: the label "Karras" has been looked up and gave the descriptor
\* whose id is "karras".
C2_Witness ==
    /\ Resolved
    /\ call.key = "Karras"
    /\ result.found # 0
    /\ schedulers[result.found].name = "karras"

\* the aliases a descriptor declares
AliasesOf(i) == {schedulers[i].aliases[j] : j \in DOMAIN schedulers[i].aliases}

\* C3: every alias declared on a descriptor resolves, through the
\* registry map, to that descriptor.
C3_AliasesResolve ==
    Resolved =>
        \A i \in DOMAIN schedulers : call.key \in AliasesOf(i) => result.found = i

\* C4: for n >= 1 and a native table of length L >= 2, simple and ddim each
\* return exactly n + 1 values, the last 0.0.
C4_StridingLength ==
    (Generated /\ call.id \in {"simple", "ddim"} /\ call.n >= 1)
        => /\ result.raised = "none"
           /\ Len(result.sigmas) = call.n + 1
           /\ Last(result.sigmas) = 0

\* the fixed table of a call of one of the four table generators
TableOf(c) == AysLiterals[c.function][c.is_sdxl]

\* C5: a fixed-table align-your-steps generator called with n equal to the length
\* of the selected table returns that table followed by 0.0; called with another
\* n >= 1 it returns n + 1 values, non-increasing, the last 0.0.
C5_AysFixedTables ==
    (Generated /\ call.function \in AysFunctions)
        => /\ result.raised = "none"
           /\ call.n = Len(TableOf(call)) => result.sigmas = TableOf(call) \o <<0>>
           /\ (call.n >= 1 /\ call.n # Len(TableOf(call))) =>
                 /\ Len(result.sigmas) = call.n + 1
                 /\ Last(result.sigmas) = 0
                 /\ NonIncreasing(result.sigmas)

\* C5 witness: the 32-entry generator was called with n = 32 and returned 33
\* values.
C5_Witness ==
    /\ Generated
    /\ call.function = "ays_32_sigmas"
    /\ call.n = 32
    /\ Len(result.sigmas) = 33

\* the text between the outermost characters that are not brackets
Unbracketed(c) ==
    LET keep == {i \in 1..Len(c) : c[i] \notin {"[", "]"}}
    IN  IF keep = {} THEN <<>>
        ELSE SubSeq(c, CHOOSE i \in keep : \A j \in keep : i <= j,
                       CHOOSE i \in keep : \A j \in keep : j <= i)

\* an element is a float when, blanks at its ends aside, it is a numeral
ElementIsFloat(e) ==
    LET ink == {i \in 1..Len(e) : e[i] # " "}
    IN  /\ ink # {}
        /\ \A i \in 1..Len(e) :
              ((\E a \in ink : a <= i) /\ (\E b \in ink : i <= b)) => e[i] \in Digits

\* the configured value cannot be parsed: it is not a string, or one of the
\* comma-separated elements of the unbracketed text is not a float (the only
\* element of an empty string is empty)
Unparsable(v) ==
    \/ ~v.is_str
    \/ LET t == Unbracketed(v.chars)
           cuts == {0, Len(t) + 1} \cup {i \in 1..Len(t) : t[i] = ","}
       IN  \E a \in cuts, b \in cuts :
              /\ a < b
              /\ \A m \in cuts : ~(a < m /\ m < b)
              /\ ~ElementIsFloat(SubSeq(t, a + 1, b - 1))

\* C6: when the configured custom list cannot be parsed, the custom generator
\* does not raise and returns what the default align-your-steps generator returns
\* for the same n and model family.
C6_CustomFallsBack ==
    (Generated /\ call.function = "get_sigmas_ays_custom"
       /\ Unparsable(call.opts.ays_custom_sigmas))
        => /\ result.raised = "none"
           /\ result = Returned(AysSigmas(AysLiterals["get_align_your_steps_sigmas"][call.is_sdxl],
                                          call.n))

\* C6 witness: the custom generator was called with the list "2a" and n = 2 and
\* returned three values.
C6_Witness ==
    /\ Generated
    /\ call.function = "get_sigmas_ays_custom"
    /\ call.opts.ays_custom_sigmas = [is_str |-> TRUE, chars |-> <<"2", "a">>]
    /\ call.n = 2
    /\ Len(result.sigmas) = 3

\* two descriptors of the list share an id, share a label, or the id of one is
\* the label of the other
Collide(list) ==
    \E i \in DOMAIN list, j \in DOMAIN list :
        /\ i # j
        /\ \/ list[i].name = list[j].name
           \/ list[i].label = list[j].label
           \/ list[i].name = list[j].label

\* C7: a registry built from a list in which two descriptors share an id, share a
\* label, or one's id is another's label fails at build time: the build never
\* completes.
C7_CollisionFails ==
    (pc = "returned" /\ call.op = "build" /\ Collide(call.list)) => result.raised # "none"

\* C8: with n = 0 no registered generator raises and none returns an undefined
\* (NaN) entry.
C8_ZeroStepsDefined ==
    (Generated /\ call.n = 0)
        => /\ result.raised = "none"
           /\ \A i \in 1..Len(result.sigmas) : result.sigmas[i] # NaN

WrapperOf(id) ==
    CASE id = "karras" -> "get_sigmas_karras"
      [] id = "exponential" -> "get_sigmas_exponential"
      [] id = "polyexponential" -> "get_sigmas_polyexponential"

\* C10: the generator the registry holds for karras, exponential and
\* polyexponential is the module's wrapper that reads the tunable parameter from
\* the configuration store, so the schedule obtained through the registry is the
\* one the wrapper computes from the configured value (exponential_shrink_factor,
\* polyexponential_rho).
C10_RegistryReadsConfig ==
    (Generated /\ call.id \in {"karras", "exponential", "polyexponential"})
        => /\ call.function = WrapperOf(call.id)
           /\ call.id = "exponential" =>
                 result = get_sigmas_exponential(call.n, call.sigma_min, call.sigma_max,
                                                 call.opts)
           /\ call.id = "polyexponential" =>
                 result = get_sigmas_polyexponential(call.n, call.sigma_min, call.sigma_max,
                                                     call.opts)

====
